---- MODULE Spec2Model ----
(***************************************************************************)
(* Model of the toy payments engine: the record decoder                    *)
(* (transaction.rs), the per-client ledger and the repository (repo.rs),   *)
(* the snapshot rows (dto.rs) and the driver loop (main.rs).               *)
(*                                                                         *)
(* Amounts and balances are f64 in the source.  The model computes with    *)
(* the f64 values NaN, +inf, -inf and the finite values                    *)
(*     (hi * 2^53 + lo) / 2^FracBits,   hi and lo small integers,          *)
(* and its +, -, <, == and {:.4} are those of f64 on these values: sums    *)
(* are rounded to nearest, ties to even, to the 53-bit significand.        *)
(***************************************************************************)
EXTENDS Integers, Sequences, FiniteSets, TLC

\* ------------------------------------------------------------------ bounds
MaxClient == 2      \* client ids 1..MaxClient
MaxTx     == 2      \* transaction ids 1..MaxTx
MaxAmount == 1      \* largest small amount of a row, in units of 2^-FracBits
MaxNeg    == 1      \* largest magnitude of a negative amount, same units
MaxBig    == 1      \* largest large amount of a row, in units of 2^(53-FracBits)
FracBits  == 5      \* binary fraction digits of the finite values
MaxRows   == 4      \* number of rows the driver reads before end of input

ClientIds == 1..MaxClient
TxIds     == 1..MaxTx

\* ------------------------------------------------------------------- f64
\* Num(hi, lo) is the f64 (hi * 2^53 + lo) / 2^FracBits; with FracBits = 5,
\* Num(0, 1) is 0.03125, Num(0, 32) is 1.0 and Num(1, 0) is 2^48 =
\* 281474976710656.0.  lo stays far below 2^52, so hi and lo are determined
\* by the value.
Num(hi, lo) == [cls |-> "num", hi |-> hi, lo |-> lo]
\* f64::INFINITY (sign 1) and f64::NEG_INFINITY (sign -1)
Inf(sign)   == [cls |-> "inf", hi |-> sign, lo |-> 0]
\* f64::NAN (sign and payload of a NaN are not observable in the program)
NaN         == [cls |-> "nan", hi |-> 0, lo |-> 0]
\* 0.0
Zero        == Num(0, 0)

Abs(x) == IF x < 0 THEN 0 - x ELSE x

\* The largest power of two that is <= h, for h >= 1.
RECURSIVE Binade(_)
Binade(h) == IF h < 2 THEN 1 ELSE 2 * Binade(h \div 2)

\* The spacing of the f64 values around the exact value hi * 2^53 + lo, in
\* units of 2^-FracBits: 1 below 2^53, 2 from 2^53 up to 2^54, 4 up to 2^55...
Ulp(hi, lo) ==
    LET H == Abs(hi)
        L == IF hi < 0 THEN 0 - lo ELSE lo
    IN  IF H = 0 THEN 1
        ELSE IF L >= 0 THEN 2 * Binade(H)
        ELSE IF Binade(H) = H THEN H
        ELSE 2 * Binade(H)

\* Round to nearest, ties to even: the f64 nearest to the exact value
\* hi * 2^53 + lo (units of 2^-FracBits).
RoundTiesEven(hi, lo) ==
    LET s == IF hi < 0 THEN 0 - 1 ELSE 1
        L == s * lo
        u == Ulp(hi, lo)
        q == L \div u
        r == L % u
        k == IF 2 * r < u THEN q
             ELSE IF 2 * r > u THEN q + 1
             ELSE IF q % 2 = 0 THEN q ELSE q + 1
    IN  Num(hi, s * k * u)

\* -x
F64Neg(x) ==
    CASE x.cls = "nan" -> NaN
      [] x.cls = "inf" -> Inf(0 - x.hi)
      [] OTHER         -> Num(0 - x.hi, 0 - x.lo)

\* x + y
F64Add(x, y) ==
    CASE x.cls = "nan" \/ y.cls = "nan"   -> NaN
      [] x.cls = "inf" /\ y.cls = "inf"   -> IF x.hi = y.hi THEN x ELSE NaN
      [] x.cls = "inf"                    -> x
      [] y.cls = "inf"                    -> y
      [] OTHER                            -> RoundTiesEven(x.hi + y.hi, x.lo + y.lo)

\* x - y
F64Sub(x, y) == F64Add(x, F64Neg(y))

\* x < y
F64Lt(x, y) ==
    CASE x.cls = "nan" \/ y.cls = "nan"   -> FALSE
      [] x.cls = "inf" /\ y.cls = "inf"   -> x.hi < y.hi
      [] x.cls = "inf"                    -> x.hi < 0
      [] y.cls = "inf"                    -> y.hi > 0
      [] OTHER                            -> x.hi < y.hi \/ (x.hi = y.hi /\ x.lo < y.lo)

\* x == y (PartialEq of f64: a NaN equals nothing)
F64Eq(x, y) == x.cls # "nan" /\ y.cls # "nan" /\ x = y

\* x <= y
F64Le(x, y) == F64Lt(x, y) \/ F64Eq(x, y)

\* The amounts of the rows: small positive and negative amounts, large
\* amounts, +inf and NaN (the decoder takes any f64 the reader parsed).
SmallAmounts == {Num(0, k) : k \in ((0 - MaxNeg)..MaxAmount) \ {0}}
BigAmounts   == {Num(h, 0) : h \in 1..MaxBig}
NonFinite    == {Inf(1), NaN}
Amounts      == SmallAmounts \cup BigAmounts \cup NonFinite

\* ------------------------------------------------------------ input rows
\* The five literals the decoder knows, and one it does not (the match is
\* case-sensitive, so "Deposit" is unknown).
KnownTypes   == {"deposit", "withdrawal", "dispute", "resolve", "chargeback"}
UnknownTypes == {"Deposit"}
TypeStrings  == KnownTypes \cup UnknownTypes

\* Option<f64>: <<>> is None, <<a>> is Some(a).
OptAmounts == {<<>>} \cup {<<a>> : a \in Amounts}

\* transaction::Record / dto::InputRecord
Record == [type : TypeStrings, client : ClientIds, tx : TxIds, amount : OptAmounts]

\* ---------------------------------------------------------- transactions
TransactionDataAmount(client, tx, amount) ==
    [client |-> client, tx |-> tx, amount |-> amount]

TransactionData(client, tx) ==
    [client |-> client, tx |-> tx]

\* enum Transaction: a tagged value, kind is the variant, data its payload.
Transaction(kind, data) == [kind |-> kind, data |-> data]

\* --------------------------------------------------------------- decoder
DecodeOk(tr)   == [ok |-> TRUE,  tr  |-> tr]
DecodeErr(err) == [ok |-> FALSE, err |-> err]

\* A decoder that wants the amount on every known type.
TryFrom_AmountRequired(value) ==
    IF value.type \in KnownTypes /\ value.amount = <<>>
    THEN DecodeErr(<<"AmountMissing", value.type>>)
    ELSE CASE value.type = "deposit" ->
                 DecodeOk(Transaction("Deposit",
                     TransactionDataAmount(value.client, value.tx, value.amount[1])))
           [] value.type = "withdrawal" ->
                 DecodeOk(Transaction("Withdrawal",
                     TransactionDataAmount(value.client, value.tx, value.amount[1])))
           [] value.type = "dispute" ->
                 DecodeOk(Transaction("Dispute", TransactionData(value.client, value.tx)))
           [] value.type = "resolve" ->
                 DecodeOk(Transaction("Resolve", TransactionData(value.client, value.tx)))
           [] value.type = "chargeback" ->
                 DecodeOk(Transaction("Chargeback", TransactionData(value.client, value.tx)))
           [] OTHER ->
                 DecodeErr(<<"UnknownTransactionType", value.type>>)

\* impl TryFrom<&Record> for Transaction
TryFrom(value) ==
    CASE value.type = "deposit" ->
            IF value.amount = <<>>
            THEN DecodeErr(<<"AmountMissing", value.type>>)
            ELSE DecodeOk(Transaction("Deposit",
                     TransactionDataAmount(value.client, value.tx, value.amount[1])))
      [] value.type = "withdrawal" ->
            IF value.amount = <<>>
            THEN DecodeErr(<<"AmountMissing", value.type>>)
            ELSE DecodeOk(Transaction("Withdrawal",
                     TransactionDataAmount(value.client, value.tx, value.amount[1])))
      [] value.type = "dispute" ->
            DecodeOk(Transaction("Dispute", TransactionData(value.client, value.tx)))
      [] value.type = "resolve" ->
            DecodeOk(Transaction("Resolve", TransactionData(value.client, value.tx)))
      [] value.type = "chargeback" ->
            DecodeOk(Transaction("Chargeback", TransactionData(value.client, value.tx)))
      [] OTHER ->
            DecodeErr(<<"UnknownTransactionType", value.type>>)

\* ---------------------------------------------------------------- ledger
\* Client::new
ClientNew(id) ==
    [id           |-> id,
     available    |-> Zero,
     held         |-> Zero,
     locked       |-> FALSE,
     transactions |-> <<>>,
     disputed     |-> {}]

\* Result<(), RepositoryError> together with the ledger the call leaves.
Ok(self)       == [res |-> <<"Ok">>, client |-> self]
Err(self, err) == [res |-> err,      client |-> self]

\* HashMap::insert
MapInsert(m, k, v) == [x \in (DOMAIN m) \cup {k} |-> IF x = k THEN v ELSE m[x]]

\* --------------------------------------------------- register_transaction
\* Deposit arm without the lock check.
DepositArm_NoLockCheck(self, transaction) ==
    LET data == transaction.data
        tx   == data.tx
    IN  IF tx \in DOMAIN self.transactions
        THEN Err(self, <<"DuplicateTransactionId", tx>>)
        ELSE Ok([self EXCEPT !.available    = F64Add(@, data.amount),
                             !.transactions = MapInsert(@, tx, transaction)])

\* Deposit arm without the duplicate check: HashMap::insert replaces the entry.
DepositArm_Overwrites(self, transaction) ==
    LET data == transaction.data
        tx   == data.tx
    IN  IF self.locked
        THEN Err(self, <<"ClientLocked", self.id>>)
        ELSE Ok([self EXCEPT !.available    = F64Add(@, data.amount),
                             !.transactions = MapInsert(@, tx, transaction)])

\* Transaction::Deposit arm of Client::register_transaction
DepositArm(self, transaction) ==
    LET data == transaction.data
        tx   == data.tx
    IN  IF self.locked
        THEN Err(self, <<"ClientLocked", self.id>>)
        ELSE IF tx \in DOMAIN self.transactions
        THEN Err(self, <<"DuplicateTransactionId", tx>>)
        ELSE Ok([self EXCEPT !.available    = F64Add(@, data.amount),
                             !.transactions = MapInsert(@, tx, transaction)])

\* Withdrawal arm that debits before it checks the funds.
WithdrawalArm_DebitFirst(self, transaction) ==
    LET data    == transaction.data
        tx      == data.tx
        debited == [self EXCEPT !.available = F64Sub(@, data.amount)]
    IN  IF self.locked
        THEN Err(self, <<"ClientLocked", self.id>>)
        ELSE IF tx \in DOMAIN self.transactions
        THEN Err(self, <<"DuplicateTransactionId", tx>>)
        ELSE IF F64Lt(debited.available, Zero)
        THEN Err(debited, <<"InsufficientFunds", data.client>>)
        ELSE Ok([debited EXCEPT !.transactions = MapInsert(@, tx, transaction)])

\* Transaction::Withdrawal arm of Client::register_transaction
WithdrawalArm(self, transaction) ==
    LET data == transaction.data
        tx   == data.tx
    IN  IF self.locked
        THEN Err(self, <<"ClientLocked", self.id>>)
        ELSE IF tx \in DOMAIN self.transactions
        THEN Err(self, <<"DuplicateTransactionId", tx>>)
        ELSE IF F64Lt(self.available, data.amount)
        THEN Err(self, <<"InsufficientFunds", data.client>>)
        ELSE Ok([self EXCEPT !.available    = F64Sub(@, data.amount),
                             !.transactions = MapInsert(@, tx, transaction)])

\* Dispute arm that moves the amount of any history entry, deposit or not.
DisputeArm_NoDepositCheck(self, transaction) ==
    LET tx == transaction.data.tx
    IN  IF tx \notin DOMAIN self.transactions
        THEN Err(self, <<"TransactionDoesNotExist", tx, self.id>>)
        ELSE IF tx \in self.disputed
        THEN Err(self, <<"TransactionAlreadyDisputed", tx>>)
        ELSE LET org_tx == self.transactions[tx]
             IN  Ok([self EXCEPT !.available = F64Sub(@, org_tx.data.amount),
                                 !.held      = F64Add(@, org_tx.data.amount),
                                 !.disputed  = @ \cup {tx}])

\* Dispute arm that also lifts the lock.
DisputeArm_Unlocks(self, transaction) ==
    LET tx == transaction.data.tx
    IN  IF tx \notin DOMAIN self.transactions
        THEN Err(self, <<"TransactionDoesNotExist", tx, self.id>>)
        ELSE IF tx \in self.disputed
        THEN Err(self, <<"TransactionAlreadyDisputed", tx>>)
        ELSE LET org_tx == self.transactions[tx]
             IN  IF org_tx.kind = "Deposit"
                 THEN Ok([self EXCEPT !.available = F64Sub(@, org_tx.data.amount),
                                      !.held      = F64Add(@, org_tx.data.amount),
                                      !.locked    = FALSE,
                                      !.disputed  = @ \cup {tx}])
                 ELSE Err(self, <<"WrongReferenceTransactionType">>)

\* Dispute arm that refuses a locked client, as the deposit arm does.
DisputeArm_RejectsLocked(self, transaction) ==
    LET tx == transaction.data.tx
    IN  IF self.locked
        THEN Err(self, <<"ClientLocked", self.id>>)
        ELSE IF tx \notin DOMAIN self.transactions
        THEN Err(self, <<"TransactionDoesNotExist", tx, self.id>>)
        ELSE IF tx \in self.disputed
        THEN Err(self, <<"TransactionAlreadyDisputed", tx>>)
        ELSE LET org_tx == self.transactions[tx]
             IN  IF org_tx.kind = "Deposit"
                 THEN Ok([self EXCEPT !.available = F64Sub(@, org_tx.data.amount),
                                      !.held      = F64Add(@, org_tx.data.amount),
                                      !.disputed  = @ \cup {tx}])
                 ELSE Err(self, <<"WrongReferenceTransactionType">>)

\* Transaction::Dispute arm of Client::register_transaction
DisputeArm(self, transaction) ==
    LET tx == transaction.data.tx
    IN  IF tx \notin DOMAIN self.transactions
        THEN Err(self, <<"TransactionDoesNotExist", tx, self.id>>)
        ELSE IF tx \in self.disputed
        THEN Err(self, <<"TransactionAlreadyDisputed", tx>>)
        ELSE LET org_tx == self.transactions[tx]
             IN  IF org_tx.kind = "Deposit"
                 THEN Ok([self EXCEPT !.available = F64Sub(@, org_tx.data.amount),
                                      !.held      = F64Add(@, org_tx.data.amount),
                                      !.disputed  = @ \cup {tx}])
                 ELSE Err(self, <<"WrongReferenceTransactionType">>)

\* Transaction::Resolve arm of Client::register_transaction
ResolveArm(self, transaction) ==
    LET tx == transaction.data.tx
    IN  IF tx \notin DOMAIN self.transactions
        THEN Err(self, <<"TransactionDoesNotExist", tx, self.id>>)
        ELSE IF tx \notin self.disputed
        THEN Err(self, <<"TransactionNotDisputed", tx>>)
        ELSE LET org_tx == self.transactions[tx]
             IN  IF org_tx.kind = "Deposit"
                 THEN Ok([self EXCEPT !.available = F64Add(@, org_tx.data.amount),
                                      !.held      = F64Sub(@, org_tx.data.amount),
                                      !.disputed  = @ \ {tx}])
                 ELSE Err(self, <<"WrongReferenceTransactionType">>)

\* Chargeback arm without the check that the tx is under dispute.
ChargebackArm_NoDisputedCheck(self, transaction) ==
    LET tx == transaction.data.tx
    IN  IF tx \notin DOMAIN self.transactions
        THEN Err(self, <<"TransactionDoesNotExist", tx, self.id>>)
        ELSE LET org_tx == self.transactions[tx]
             IN  IF org_tx.kind = "Deposit"
                 THEN Ok([self EXCEPT !.held     = F64Sub(@, org_tx.data.amount),
                                      !.locked   = TRUE,
                                      !.disputed = @ \ {tx}])
                 ELSE Err(self, <<"WrongReferenceTransactionType">>)

\* Chargeback arm that locks the client before it validates the reference.
ChargebackArm_LocksFirst(self, transaction) ==
    LET tx     == transaction.data.tx
        frozen == [self EXCEPT !.locked = TRUE]
    IN  IF tx \notin DOMAIN self.transactions
        THEN Err(frozen, <<"TransactionDoesNotExist", tx, self.id>>)
        ELSE IF tx \notin self.disputed
        THEN Err(frozen, <<"TransactionNotDisputed", tx>>)
        ELSE LET org_tx == self.transactions[tx]
             IN  IF org_tx.kind = "Deposit"
                 THEN Ok([frozen EXCEPT !.held     = F64Sub(@, org_tx.data.amount),
                                        !.disputed = @ \ {tx}])
                 ELSE Err(frozen, <<"WrongReferenceTransactionType">>)

\* Transaction::Chargeback arm of Client::register_transaction
ChargebackArm(self, transaction) ==
    LET tx == transaction.data.tx
    IN  IF tx \notin DOMAIN self.transactions
        THEN Err(self, <<"TransactionDoesNotExist", tx, self.id>>)
        ELSE IF tx \notin self.disputed
        THEN Err(self, <<"TransactionNotDisputed", tx>>)
        ELSE LET org_tx == self.transactions[tx]
             IN  IF org_tx.kind = "Deposit"
                 THEN Ok([self EXCEPT !.held     = F64Sub(@, org_tx.data.amount),
                                      !.locked   = TRUE,
                                      !.disputed = @ \ {tx}])
                 ELSE Err(self, <<"WrongReferenceTransactionType">>)

\* Client::register_transaction: the ledger the call leaves and its result.
ClientRegisterTransaction(self, transaction) ==
    CASE transaction.kind = "Deposit"    -> DepositArm(self, transaction)
      [] transaction.kind = "Withdrawal" -> WithdrawalArm(self, transaction)
      [] transaction.kind = "Dispute"    -> DisputeArm(self, transaction)
      [] transaction.kind = "Resolve"    -> ResolveArm(self, transaction)
      [] transaction.kind = "Chargeback" -> ChargebackArm(self, transaction)

\* ------------------------------------------------------------ repository
\* clients.insert(client_id, Client::new(client_id)): a fresh ledger replaces
\* the stored one on every call.
EntryOrInsert_AlwaysInsert(cl, client_id) ==
    MapInsert(cl, client_id, ClientNew(client_id))

\* clients.entry(client_id).or_insert_with(|| Client::new(client_id))
EntryOrInsert(cl, client_id) ==
    IF client_id \in DOMAIN cl THEN cl ELSE MapInsert(cl, client_id, ClientNew(client_id))

\* Repository::register_transaction that keeps a new ledger only when its
\* first transaction is accepted.
RepositoryRegisterTransaction_DropsRejected(cl, transaction) ==
    LET client_id == transaction.data.client
        withEntry == EntryOrInsert(cl, client_id)
        r         == ClientRegisterTransaction(withEntry[client_id], transaction)
    IN  IF r.res = <<"Ok">>
        THEN [res |-> r.res, clients |-> [withEntry EXCEPT ![client_id] = r.client]]
        ELSE [res |-> r.res, clients |-> cl]

\* Repository::register_transaction with tx ids unique across all clients: a
\* Deposit or Withdrawal whose id is in any client's history is a duplicate.
RepositoryRegisterTransaction_GlobalTxIds(cl, transaction) ==
    LET client_id == transaction.data.client
        withEntry == EntryOrInsert(cl, client_id)
        r         == ClientRegisterTransaction(withEntry[client_id], transaction)
        taken     == \E d \in DOMAIN cl : transaction.data.tx \in DOMAIN cl[d].transactions
    IN  IF transaction.kind \in {"Deposit", "Withdrawal"} /\ taken
        THEN [res |-> <<"DuplicateTransactionId", transaction.data.tx>>, clients |-> withEntry]
        ELSE [res |-> r.res, clients |-> [withEntry EXCEPT ![client_id] = r.client]]

\* Repository::register_transaction: the clients map the call leaves and its
\* result.  The ledger is created before the transaction is handed to it, so
\* it stays in the map when the transaction is rejected.
RepositoryRegisterTransaction(cl, transaction) ==
    LET client_id == transaction.data.client
        withEntry == EntryOrInsert(cl, client_id)
        r         == ClientRegisterTransaction(withEntry[client_id], transaction)
    IN  [res |-> r.res, clients |-> [withEntry EXCEPT ![client_id] = r.client]]

\* ------------------------------------------------------------- snapshot
\* format!("{:.4}", x): "NaN", "inf" or "-inf", or else the sign, the
\* integer part and four fractional digits of x, the decimal expansion of x
\* rounded to four digits, ties to the even digit.  int is <<h, w>> for the
\* integer part h * 2^(53-FracBits) + w, frac is the four digits as a number.
Format4(x) ==
    CASE x.cls = "nan" -> [text |-> "NaN", neg |-> FALSE,    int |-> <<0, 0>>, frac |-> 0]
      [] x.cls = "inf" -> [text |-> "inf", neg |-> x.hi < 0, int |-> <<0, 0>>, frac |-> 0]
      [] OTHER ->
            LET H     == Abs(x.hi)
                L     == IF x.hi < 0 THEN 0 - x.lo
                         ELSE IF x.hi = 0 THEN Abs(x.lo) ELSE x.lo
                whole == L \div (2 ^ FracBits)
                \* the fraction, as a number of FracBits decimal digits
                N     == (L % (2 ^ FracBits)) * (5 ^ FracBits)
                cut   == IF FracBits > 4 THEN 10 ^ (FracBits - 4) ELSE 1
                q     == IF FracBits > 4 THEN N \div cut ELSE N * (10 ^ (4 - FracBits))
                r     == IF FracBits > 4 THEN N % cut ELSE 0
                d     == IF 2 * r < cut THEN q
                         ELSE IF 2 * r > cut THEN q + 1
                         ELSE IF q % 2 = 0 THEN q ELSE q + 1
            IN  [text |-> "num",
                 neg  |-> F64Lt(x, Zero),
                 int  |-> IF d = 10000 THEN <<H, whole + 1>> ELSE <<H, whole>>,
                 frac |-> IF d = 10000 THEN 0 ELSE d]

\* OutputRecord::new
OutputRecordNew(client, available, held, total, locked) ==
    [client    |-> client,
     available |-> Format4(available),
     held      |-> Format4(held),
     total     |-> Format4(total),
     locked    |-> locked]

\* impl From<&Client> for OutputRecord
OutputRecordFrom(c) ==
    OutputRecordNew(c.id, c.available, c.held, F64Add(c.available, c.held), c.locked)

\* ----------------------------------------------------------------- state
VARIABLES
    clients,      \* Repository.clients: client id -> ledger, for the ids seen
    pc,           \* main: "run" in the read loop, "done" after the snapshot,
                  \*       "failed" after an error returned by main
    output,       \* rows written to stdout (the writer's order is the map's)
    nread,        \* rows read so far
    last,         \* the last transaction decoded and the error (or Ok) the
                  \* loop got for the last row: what stderr shows of it
    charged       \* client id -> tx id -> number of successful chargebacks of it

vars == <<clients, pc, output, nread, last, charged>>

\* No transaction: the row was not decoded (or none was read yet).
NoTransaction == [kind |-> "None", data |-> TransactionData(0, 0)]

Init ==
    /\ clients = <<>>
    /\ pc      = "run"
    /\ output  = {}
    /\ nread   = 0
    /\ last    = [tr |-> NoTransaction, stage |-> "none", res |-> <<"None">>]
    /\ charged = [c \in ClientIds |-> [t \in TxIds |-> 0]]

\* The ledger repo.register_transaction works on for client c: the stored
\* one, or the fresh one it creates.
LedgerOf(c) == IF c \in DOMAIN clients THEN clients[c] ELSE ClientNew(c)

\* The fields of InputRecord the reader parses as numbers: client (u16), tx
\* (u32) and amount (Option<f64>); type is a String and takes any text.
ParsedFields == {"client", "tx", "amount"}

\* main.rs:38-39, `result?` on a row the reader cannot deserialize into
\* InputRecord, its `field` is no number of the field's type (or the row
\* is too short to have it): main returns the error; the loop ends and no
\* snapshot is written.
DeserializeFailure(field) ==
    /\ pc = "run"
    /\ nread < MaxRows
    /\ pc'    = "failed"
    /\ nread' = nread + 1
    /\ last'  = [tr |-> NoTransaction, stage |-> "read", res |-> <<"DeserializeError", field>>]
    /\ UNCHANGED <<clients, output, charged>>

\* main.rs:40, `record.try_into()?` on a row the decoder rejects: main returns
\* the error; the loop ends and no snapshot is written.
DecodeFailure(record) ==
    /\ pc = "run"
    /\ nread < MaxRows
    /\ ~TryFrom(record).ok
    /\ pc'    = "failed"
    /\ nread' = nread + 1
    /\ last'  = [tr |-> NoTransaction, stage |-> "decode", res |-> TryFrom(record).err]
    /\ UNCHANGED <<clients, output, charged>>

\* main.rs:40-45 on a row the decoder accepts: the repository applies it; an
\* error is printed to stderr and the loop goes on.
RegisterRecord(record) ==
    /\ pc = "run"
    /\ nread < MaxRows
    /\ TryFrom(record).ok
    /\ LET transaction == TryFrom(record).tr
           r           == RepositoryRegisterTransaction(clients, transaction)
           c           == transaction.data.client
       IN  /\ clients' = r.clients
           /\ last'    = [tr |-> transaction, stage |-> "ledger", res |-> r.res]
           /\ charged' = IF transaction.kind = "Chargeback" /\ r.res = <<"Ok">>
                         THEN [charged EXCEPT ![c][transaction.data.tx] = @ + 1]
                         ELSE charged
    /\ nread' = nread + 1
    /\ UNCHANGED <<pc, output>>

\* main.rs:48-54, end of input: one row per ledger of the repository.
WriteSnapshot ==
    /\ pc = "run"
    /\ output' = {OutputRecordFrom(clients[c]) : c \in DOMAIN clients}
    /\ pc'     = "done"
    /\ UNCHANGED <<clients, nread, last, charged>>

Next ==
    \/ \E field \in ParsedFields : DeserializeFailure(field)
    \/ \E record \in Record : DecodeFailure(record)
    \/ \E record \in Record : RegisterRecord(record)
    \/ WriteSnapshot

Spec == Init /\ [][Next]_vars

\* ====================================================== properties
\* The properties speak of sums and differences of amounts as numbers.
\* RealAdd and RealSub are x + y and x - y without rounding (hi * 2^53 + lo
\* is then any integer, not only one an f64 can hold); on NaN and the
\* infinities they are the f64 operations.
RealAdd(x, y) ==
    IF x.cls = "num" /\ y.cls = "num"
    THEN Num(x.hi + y.hi, x.lo + y.lo)
    ELSE F64Add(x, y)

RealSub(x, y) == RealAdd(x, F64Neg(y))

\* Sum of the amounts of the history entries of `self` whose tx id is in S.
RECURSIVE SumAmounts(_, _)
SumAmounts(self, S) ==
    IF S = {} THEN Zero
    ELSE LET t == CHOOSE x \in S : TRUE
         IN  RealAdd(self.transactions[t].data.amount, SumAmounts(self, S \ {t}))

\* The tx ids of the history entries of `self` of the given variant.
TxOfKind(self, kind) ==
    {t \in DOMAIN self.transactions : self.transactions[t].kind = kind}

\* The step is one pass of the loop that handed a transaction to the repository.
LedgerStep == nread' = nread + 1 /\ last'.stage = "ledger"

Referential == {"Dispute", "Resolve", "Chargeback"}
Monetary    == {"Deposit", "Withdrawal"}

\* C1 (INV-TOTAL): for every ledger, available + held equals the sum of the
\* accepted deposits minus the sum of the accepted withdrawals minus the sum
\* of the amounts of the deposits whose dispute ended in a chargeback.
C1_Total ==
    \A c \in DOMAIN clients :
        LET self == clients[c]
        IN  F64Eq(RealAdd(self.available, self.held),
                  RealSub(RealSub(SumAmounts(self, TxOfKind(self, "Deposit")),
                                  SumAmounts(self, TxOfKind(self, "Withdrawal"))),
                          SumAmounts(self, {t \in TxIds : charged[c][t] > 0})))

\* C2: a deposit whose dispute ended in a successful chargeback is terminal:
\* every later Dispute, Resolve or Chargeback referencing it fails and moves
\* nothing between available and held.
C2_ChargedBackIsTerminal ==
    [][(/\ LedgerStep
        /\ last'.tr.kind \in Referential
        /\ charged[last'.tr.data.client][last'.tr.data.tx] > 0)
       => LET c == last'.tr.data.client
          IN  /\ last'.res # <<"Ok">>
              /\ clients'[c].available = clients[c].available
              /\ clients'[c].held = clients[c].held]_vars

\* C3 (INV-HELD-NONNEG): held >= 0 in every state of every ledger.
C3_HeldNonNeg ==
    \A c \in DOMAIN clients : F64Le(Zero, clients[c].held)

\* C4: no per-record error, from the decoder or from the ledger,
\* ends the run: after a row ended in an error main is still reading, or has
\* written the snapshot.
C4_PerRecordErrorsNonFatal ==
    (last.stage \in {"decode", "ledger"} /\ last.res # <<"Ok">>)
        => pc \in {"run", "done"}

\* C5: a transaction the ledger rejects leaves the ledger (available, held,
\* locked, history, disputed) as it was before the call.
C5_ErrorsLeaveLedgerUnchanged ==
    [][(LedgerStep /\ last'.res # <<"Ok">>)
       => LET c == last'.tr.data.client
          IN  clients'[c] = LedgerOf(c)]_vars

\* C5 witness: a withdrawal rejected for lack of funds by a ledger that holds
\* a disputed deposit.
C5_Witness ==
    /\ last.stage = "ledger"
    /\ last.res[1] = "InsufficientFunds"
    /\ LET self == clients[last.tr.data.client]
       IN  self.disputed # {} /\ F64Lt(Zero, self.held)

\* C6: for every ledger, held is the sum of the amounts of the deposits whose
\* tx id is in disputed.
C6_HeldIsSumOfDisputed ==
    \A c \in DOMAIN clients :
        F64Eq(clients[c].held, SumAmounts(clients[c], clients[c].disputed))

\* C7 (INV-DISPUTED-DEPOSITS): every tx id in disputed is a key of the
\* history and its entry is a Deposit.
C7_DisputedAreDeposits ==
    \A c \in DOMAIN clients :
        \A t \in clients[c].disputed :
            /\ t \in DOMAIN clients[c].transactions
            /\ clients[c].transactions[t].kind = "Deposit"

\* C7 witness: a dispute of a withdrawal was handed to a ledger that has a
\* deposit under dispute.
C7_Witness ==
    /\ last.stage = "ledger"
    /\ last.tr.kind = "Dispute"
    /\ LET self == clients[last.tr.data.client]
       IN  /\ self.disputed # {}
           /\ last.tr.data.tx \in TxOfKind(self, "Withdrawal")

\* C8 (INV-LOCK-MONOTONIC): a locked ledger stays in the repository and stays
\* locked.
C8_LockMonotonic ==
    [][\A c \in DOMAIN clients :
          clients[c].locked => (c \in DOMAIN clients' /\ clients'[c].locked)]_vars

\* C8 witness: a transaction accepted by a locked ledger.
C8_Witness ==
    /\ last.stage = "ledger"
    /\ last.res = <<"Ok">>
    /\ last.tr.kind = "Dispute"
    /\ clients[last.tr.data.client].locked

\* C9 (locked rejection): after a successful chargeback on a client, every
\* Deposit or Withdrawal on it fails with ClientLocked and changes nothing.
C9_LockedRejection ==
    [][(/\ LedgerStep
        /\ last'.tr.kind \in Monetary
        /\ \E t \in TxIds : charged[last'.tr.data.client][t] > 0)
       => LET c == last'.tr.data.client
          IN  /\ last'.res = <<"ClientLocked", c>>
              /\ clients'[c] = clients[c]]_vars

\* C9 witness: ClientLocked for a withdrawal that reuses a tx id of the
\* history and exceeds the available funds.
C9_Witness ==
    /\ last.stage = "ledger"
    /\ last.tr.kind = "Withdrawal"
    /\ last.res[1] = "ClientLocked"
    /\ LET self == clients[last.tr.data.client]
       IN  /\ last.tr.data.tx \in DOMAIN self.transactions
           /\ F64Lt(self.available, last.tr.data.amount)

\* C10: on a locked ledger Dispute, Resolve and Chargeback have the result,
\* and the effect on available, held and disputed, that they have on the same
\* ledger unlocked.
\* It holds of the steps of the run, and of every Dispute, Resolve and
\* Chargeback that could be the next row of a locked ledger.
C10_DisputeProtocolIgnoresLock ==
    /\ [][(/\ LedgerStep
           /\ last'.tr.kind \in Referential
           /\ LedgerOf(last'.tr.data.client).locked)
          => LET c        == last'.tr.data.client
                 unlocked == [clients[c] EXCEPT !.locked = FALSE]
                 r        == ClientRegisterTransaction(unlocked, last'.tr)
             IN  /\ last'.res = r.res
                 /\ clients'[c].available = r.client.available
                 /\ clients'[c].held = r.client.held
                 /\ clients'[c].disputed = r.client.disputed
                 /\ clients'[c].transactions = r.client.transactions]_vars
    /\ [](\A c \in DOMAIN clients : \A kind \in Referential : \A t \in TxIds :
             clients[c].locked =>
                 LET tr == Transaction(kind, TransactionData(c, t))
                     on  == ClientRegisterTransaction(clients[c], tr)
                     off == ClientRegisterTransaction([clients[c] EXCEPT !.locked = FALSE], tr)
                 IN  /\ on.res = off.res
                     /\ on.client.available = off.client.available
                     /\ on.client.held = off.client.held
                     /\ on.client.disputed = off.client.disputed
                     /\ on.client.transactions = off.client.transactions)

\* C10 witness: a dispute was accepted by a locked ledger, which moved the
\* deposit's amount from available to held.
C10_Witness ==
    /\ last.stage = "ledger"
    /\ last.res = <<"Ok">>
    /\ last.tr.kind = "Dispute"
    /\ LET self == clients[last.tr.data.client]
       IN  /\ self.locked
           /\ last.tr.data.tx \in self.disputed
           /\ self.held = self.transactions[last.tr.data.tx].data.amount
           /\ self.held = Num(0, 1)

\* C11 (chargeback idempotence): a Chargeback of a tx that was charged back
\* and has not been disputed again since fails with TransactionNotDisputed
\* and leaves the ledger unchanged.
C11_ChargebackIdempotent ==
    [][(/\ LedgerStep
        /\ last'.tr.kind = "Chargeback"
        /\ charged[last'.tr.data.client][last'.tr.data.tx] > 0
        /\ last'.tr.data.tx \notin clients[last'.tr.data.client].disputed)
       => LET c == last'.tr.data.client
          IN  /\ last'.res = <<"TransactionNotDisputed", last'.tr.data.tx>>
              /\ clients'[c] = clients[c]
              /\ charged' = charged]_vars

\* C11 witness: the second of two chargebacks of the same tx was rejected.
C11_Witness ==
    /\ last.stage = "ledger"
    /\ last.tr.kind = "Chargeback"
    /\ last.res[1] = "TransactionNotDisputed"
    /\ charged[last.tr.data.client][last.tr.data.tx] = 1

\* C12 (dispute/resolve identity): on every ledger the run reaches, a Dispute
\* that succeeds followed at once by the Resolve of the same tx succeeds and
\* gives back the ledger as it was before the dispute; and after Deposit(a),
\* Dispute, Resolve on a fresh client available is a and held is 0.
C12_DisputeResolveIdentity ==
    /\ \A c \in DOMAIN clients, t \in TxIds :
           LET self == clients[c]
               d    == ClientRegisterTransaction(self,
                           Transaction("Dispute", TransactionData(c, t)))
               r    == ClientRegisterTransaction(d.client,
                           Transaction("Resolve", TransactionData(c, t)))
           IN  d.res = <<"Ok">> => (r.res = <<"Ok">> /\ r.client = self)
    /\ (/\ last.stage = "ledger"
        /\ last.tr.kind = "Resolve"
        /\ last.res = <<"Ok">>
        /\ DOMAIN clients[last.tr.data.client].transactions = {last.tr.data.tx}
        /\ charged[last.tr.data.client][last.tr.data.tx] = 0)
       => LET self == clients[last.tr.data.client]
          IN  /\ F64Eq(self.available, self.transactions[last.tr.data.tx].data.amount)
              /\ F64Eq(self.held, Zero)
              /\ self.disputed = {}
              /\ ~self.locked

\* C13 (dispute/chargeback zeroing): the Chargeback of a deposit under dispute
\* succeeds, takes the deposit's amount out of held, leaves available as it
\* is and locks the client; when that deposit is the only transaction of the
\* client and was never charged back before (Deposit(a), Dispute, Chargeback
\* on a fresh client), available is 0, held is 0 and locked is true after it.
C13_DisputeChargebackZeroing ==
    [][(/\ LedgerStep
        /\ last'.tr.kind = "Chargeback"
        /\ last'.tr.data.tx \in LedgerOf(last'.tr.data.client).disputed)
       => LET c    == last'.tr.data.client
              t    == last'.tr.data.tx
              self == clients[c]
              a    == self.transactions[t].data.amount
          IN  /\ last'.res = <<"Ok">>
              /\ F64Eq(clients'[c].held, RealSub(self.held, a))
              /\ clients'[c].available = self.available
              /\ clients'[c].locked
              /\ clients'[c].disputed = self.disputed \ {t}
              /\ clients'[c].transactions = self.transactions
              /\ (DOMAIN self.transactions = {t} /\ charged[c][t] = 0)
                     => /\ F64Eq(clients'[c].available, Zero)
                        /\ F64Eq(clients'[c].held, Zero)]_vars

\* C14 (round-trip): a Deposit(a) on a fresh client succeeds and makes
\* available a; the Withdrawal(a) with another tx id that follows it at once
\* succeeds too and leaves available 0 and held 0.
C14_RoundTrip ==
    [][/\ (/\ LedgerStep
           /\ last'.tr.kind = "Deposit"
           /\ LedgerOf(last'.tr.data.client) = ClientNew(last'.tr.data.client))
          => LET c == last'.tr.data.client
             IN  /\ last'.res = <<"Ok">>
                 /\ F64Eq(clients'[c].available, last'.tr.data.amount)
                 /\ F64Eq(clients'[c].held, Zero)
       /\ (/\ LedgerStep
           /\ last.stage = "ledger"
           /\ last.tr.kind = "Deposit"
           /\ last.res = <<"Ok">>
           /\ DOMAIN clients[last.tr.data.client].transactions = {last.tr.data.tx}
           /\ last'.tr.kind = "Withdrawal"
           /\ last'.tr.data.client = last.tr.data.client
           /\ last'.tr.data.tx # last.tr.data.tx
           /\ last'.tr.data.amount = last.tr.data.amount)
          => LET c == last'.tr.data.client
             IN  /\ last'.res = <<"Ok">>
                 /\ F64Eq(clients'[c].available, Zero)
                 /\ F64Eq(clients'[c].held, Zero)]_vars

\* C15: the Dispute of a deposit of the history that is not under dispute
\* succeeds whatever available is: available falls by the deposit's amount
\* (below 0 when available was less than the amount), held rises by it and
\* available + held is unchanged.
C15_DisputeNeverLacksFunds ==
    [][(/\ LedgerStep
        /\ last'.tr.kind = "Dispute"
        /\ last'.tr.data.tx \in TxOfKind(LedgerOf(last'.tr.data.client), "Deposit")
        /\ last'.tr.data.tx \notin LedgerOf(last'.tr.data.client).disputed)
       => LET c    == last'.tr.data.client
              self == clients[c]
              a    == self.transactions[last'.tr.data.tx].data.amount
          IN  /\ last'.res = <<"Ok">>
              /\ F64Eq(clients'[c].available, RealSub(self.available, a))
              /\ F64Eq(clients'[c].held, RealAdd(self.held, a))
              /\ F64Eq(RealAdd(clients'[c].available, clients'[c].held),
                       RealAdd(self.available, self.held))
              /\ F64Lt(self.available, a) => F64Lt(clients'[c].available, Zero)]_vars

\* C16: the repository knows no client at the start, and knows a client from
\* the first transaction carrying its id that is handed to it, accepted or
\* not (a client whose transactions were all rejected has the fresh ledger);
\* no other step changes the set of known clients; the snapshot written at
\* end of input has exactly one row for each known client and no other row,
\* and the row of a client with the fresh ledger shows zero balances and
\* locked = false.
C16_SnapshotRowPerKnownClient ==
    /\ DOMAIN clients = {}
    /\ [][/\ LedgerStep =>
                LET c == last'.tr.data.client
                IN  /\ DOMAIN clients' = DOMAIN clients \cup {c}
                    /\ (c \notin DOMAIN clients /\ last'.res # <<"Ok">>)
                           => clients'[c] = ClientNew(c)
          /\ ~LedgerStep => DOMAIN clients' = DOMAIN clients
          /\ (pc = "run" /\ pc' = "done") =>
                /\ \A c \in DOMAIN clients' :
                       Cardinality({row \in output' : row.client = c}) = 1
                /\ \A row \in output' : row.client \in DOMAIN clients'
                /\ \A c \in DOMAIN clients' :
                       clients'[c] = ClientNew(c) =>
                           [client    |-> c,
                            available |-> [text |-> "num", neg |-> FALSE, int |-> <<0, 0>>, frac |-> 0],
                            held      |-> [text |-> "num", neg |-> FALSE, int |-> <<0, 0>>, frac |-> 0],
                            total     |-> [text |-> "num", neg |-> FALSE, int |-> <<0, 0>>, frac |-> 0],
                            locked    |-> FALSE] \in output']_vars

\* C16 witness: the snapshot was written with two rows, one of them for a
\* client whose only transaction was rejected.
C16_Witness ==
    /\ pc = "done"
    /\ nread = 2
    /\ Cardinality(output) = 2
    /\ \E c \in DOMAIN clients :
           /\ clients[c] = ClientNew(c)
           /\ last.tr.data.client = c
           /\ last.res # <<"Ok">>
    /\ \E c \in DOMAIN clients : clients[c].available = Num(0, 1)

\* C17 (client isolation and ordering): a transaction carrying client id c
\* leaves every other ledger of the repository as it is and adds or removes
\* no other ledger; c's ledger becomes what its own register_transaction
\* makes of the ledger c's earlier transactions left (the fresh ledger when
\* there were none), with that call's result; and two rows of different
\* clients that are read next give the same ledgers and the same results in
\* either order.  By induction on the input, each ledger is the result of
\* applying the client's own rows, in input order, to a fresh ledger, however
\* the other clients' rows are interleaved.
\* The transactions the decoder produces from the rows.
DecodedTransactions == {TryFrom(record).tr : record \in {x \in Record : TryFrom(x).ok}}

\* C17 (client isolation and ordering), as stated above.
C17_ClientIsolation ==
    /\ [][LedgerStep =>
             LET c == last'.tr.data.client
                 r == ClientRegisterTransaction(LedgerOf(c), last'.tr)
             IN  /\ DOMAIN clients' \ {c} = DOMAIN clients \ {c}
                 /\ \A d \in DOMAIN clients \ {c} : clients'[d] = clients[d]
                 /\ \A d \in ClientIds \ {c} : charged'[d] = charged[d]
                 /\ clients'[c] = r.client
                 /\ last'.res = r.res]_vars
    /\ []((pc = "run" /\ nread + 2 <= MaxRows) =>
             \A t1, t2 \in DecodedTransactions :
                 t1.data.client < t2.data.client =>
                     LET a1 == RepositoryRegisterTransaction(clients, t1)
                         a2 == RepositoryRegisterTransaction(a1.clients, t2)
                         b2 == RepositoryRegisterTransaction(clients, t2)
                         b1 == RepositoryRegisterTransaction(b2.clients, t1)
                     IN  /\ a2.clients = b1.clients
                         /\ a1.res = b1.res
                         /\ a2.res = b2.res)

\* C17 witness: three rows were read, the last one was accepted by a client
\* that already had a transaction, and the other client holds its own deposit.
C17_Witness ==
    /\ nread = 3
    /\ last.stage = "ledger"
    /\ last.tr.kind = "Dispute"
    /\ last.res = <<"Ok">>
    /\ \E d \in DOMAIN clients :
           /\ d # last.tr.data.client
           /\ clients[d].available = Num(0, 1)
           /\ clients[d].held = Zero
    /\ clients[last.tr.data.client].held = Num(0, 1)

\* C18 (decoder): whenever main is about to read a row, for every row it may
\* read: a deposit or withdrawal row with an amount decodes to the Deposit or
\* Withdrawal carrying the row's client and tx; without an amount it fails
\* with AmountMissing(type); a dispute, resolve or chargeback row decodes to
\* the Dispute, Resolve or Chargeback carrying the row's client and tx, with
\* or without an amount, and to the same transaction either way; a row of
\* any other type fails with UnknownTransactionType(type).
C18_Decoder ==
    (pc = "run" /\ nread < MaxRows) =>
        \A record \in Record :
            LET d       == TryFrom(record)
                variant == CASE record.type = "deposit"    -> "Deposit"
                             [] record.type = "withdrawal" -> "Withdrawal"
                             [] record.type = "dispute"    -> "Dispute"
                             [] record.type = "resolve"    -> "Resolve"
                             [] record.type = "chargeback" -> "Chargeback"
                             [] OTHER                      -> "None"
            IN  /\ (record.type \in {"deposit", "withdrawal"} /\ record.amount # <<>>) =>
                       /\ d.ok
                       /\ d.tr.kind = variant
                       /\ d.tr.data.client = record.client
                       /\ d.tr.data.tx = record.tx
                /\ (record.type \in {"deposit", "withdrawal"} /\ record.amount = <<>>) =>
                       /\ ~d.ok
                       /\ d.err = <<"AmountMissing", record.type>>
                /\ record.type \in {"dispute", "resolve", "chargeback"} =>
                       /\ d.ok
                       /\ d.tr.kind = variant
                       /\ d.tr.data.client = record.client
                       /\ d.tr.data.tx = record.tx
                       /\ d = TryFrom([record EXCEPT !.amount = <<>>])
                /\ variant = "None" =>
                       /\ ~d.ok
                       /\ d.err = <<"UnknownTransactionType", record.type>>

\* C18 witness: after rows that were decoded and applied, a withdrawal row
\* without an amount ended main with AmountMissing.
C18_Witness ==
    /\ nread >= 3
    /\ clients # <<>>
    /\ last.stage = "decode"
    /\ last.res = <<"AmountMissing", "withdrawal">>

\* What one step of main does to the histories (self.transactions): a row
\* that reaches the repository changes the history of its client only, adds
\* the row's tx id exactly when the row is a Deposit or Withdrawal that
\* succeeded, adds it only if it was not a key before, stores the row's
\* transaction under it, and leaves every older entry as it was; a Deposit or
\* Withdrawal whose tx id is already a key is rejected; any other step leaves
\* all ledgers alone.
HistoryStep ==
    IF LedgerStep
    THEN LET c    == last'.tr.data.client
             tx   == last'.tr.data.tx
             old  == LedgerOf(c).transactions
             new  == clients'[c].transactions
             adds == last'.tr.kind \in Monetary /\ last'.res = <<"Ok">>
         IN  /\ \A d \in DOMAIN clients \ {c} : clients'[d] = clients[d]
             /\ DOMAIN new = IF adds THEN DOMAIN old \cup {tx} ELSE DOMAIN old
             /\ adds => tx \notin DOMAIN old /\ new[tx] = last'.tr
             /\ \A t \in DOMAIN old : new[t] = old[t]
             /\ (last'.tr.kind \in Monetary /\ tx \in DOMAIN old) => last'.res # <<"Ok">>
    ELSE clients' = clients

\* A row that reached the repository as a Deposit or Withdrawal whose tx id
\* is already a key of its client's history.
ReusesTxId ==
    /\ LedgerStep
    /\ last'.tr.kind \in Monetary
    /\ last'.tr.data.tx \in DOMAIN LedgerOf(last'.tr.data.client).transactions

\* C19 as stated: histories start empty and evolve by HistoryStep, and every
\* Deposit or Withdrawal that reuses a tx id of its client's history fails
\* with DuplicateTransactionId.  Violated: on a locked client the lock check
\* comes first and the row fails with ClientLocked.
C19_ReuseFailsWithDuplicate ==
    /\ clients = <<>>
    /\ \A c \in ClientIds : ClientNew(c).transactions = <<>>
    /\ [][/\ HistoryStep
          /\ ReusesTxId => last'.res = <<"DuplicateTransactionId", last'.tr.data.tx>>]_vars

\* C19 (history tracking): histories start empty; a tx id becomes a key of a
\* client's history exactly by a successful Deposit or Withdrawal with that
\* id on that client, at most once, and an entry is never removed or
\* overwritten; a later Deposit or Withdrawal reusing the id fails, with
\* DuplicateTransactionId on an unlocked client and with ClientLocked on a
\* locked one, and the original entry and amount are kept.
C19_HistoryTracking ==
    /\ clients = <<>>
    /\ \A c \in ClientIds : ClientNew(c).transactions = <<>>
    /\ [][/\ HistoryStep
          /\ ReusesTxId =>
                LET self == LedgerOf(last'.tr.data.client)
                IN  last'.res = IF self.locked
                                THEN <<"ClientLocked", self.id>>
                                ELSE <<"DuplicateTransactionId", last'.tr.data.tx>>]_vars

\* C19 witness: a Withdrawal reusing the id of an accepted Deposit, with
\* another amount, was rejected as a duplicate; the history still holds the
\* Deposit and its amount.
C19_Witness ==
    /\ last.stage = "ledger"
    /\ last.tr.kind = "Withdrawal"
    /\ last.res = <<"DuplicateTransactionId", last.tr.data.tx>>
    /\ last.tr.data.client \in DOMAIN clients
    /\ LET self == clients[last.tr.data.client]
       IN  /\ last.tr.data.tx \in DOMAIN self.transactions
           /\ self.transactions[last.tr.data.tx].kind = "Deposit"
           /\ self.transactions[last.tr.data.tx].data.amount # last.tr.data.amount
           /\ self.available = self.transactions[last.tr.data.tx].data.amount

\* C20 (withdrawal): for every Withdrawal that reaches the repository, with
\* self the client's ledger before it (a new one if the client was never
\* seen): it succeeds iff self is unlocked, tx is not in the history and
\* available >= amount; otherwise it fails with ClientLocked if self is
\* locked, else with DuplicateTransactionId if tx is in the history, else
\* with InsufficientFunds; on success available decreases by amount, held
\* and disputed are unchanged and available is >= 0; a Withdrawal of a
\* positive amount on a client never seen before fails with
\* InsufficientFunds.
C20_Withdrawal ==
    [][(LedgerStep /\ last'.tr.kind = "Withdrawal") =>
          LET c      == last'.tr.data.client
              tx     == last'.tr.data.tx
              amount == last'.tr.data.amount
              self   == LedgerOf(c)
              after  == clients'[c]
              known  == tx \in DOMAIN self.transactions
          IN  /\ last'.res = <<"Ok">>
                    <=> (~self.locked /\ ~known /\ F64Le(amount, self.available))
              /\ self.locked => last'.res = <<"ClientLocked", c>>
              /\ (~self.locked /\ known) => last'.res = <<"DuplicateTransactionId", tx>>
              /\ (~self.locked /\ ~known /\ F64Lt(self.available, amount))
                    => last'.res = <<"InsufficientFunds", c>>
              /\ last'.res = <<"Ok">> =>
                    /\ F64Eq(after.available, RealSub(self.available, amount))
                    /\ after.held = self.held
                    /\ after.disputed = self.disputed
                    /\ F64Le(Zero, after.available)
              /\ (c \notin DOMAIN clients /\ F64Lt(Zero, amount))
                    => last'.res = <<"InsufficientFunds", c>>]_vars

\* C21 (deposit): for every Deposit that reaches the repository, with self
\* the client's ledger before it (a new one if the client was never seen):
\* it succeeds iff self is unlocked and tx is not in the history; it fails
\* with ClientLocked if self is locked, whether or not tx is in the history,
\* and with DuplicateTransactionId if self is unlocked and tx is in the
\* history; on success available increases by exactly amount, the Deposit
\* is the history's entry under tx, and held, locked and disputed are
\* unchanged.
C21_Deposit ==
    [][(LedgerStep /\ last'.tr.kind = "Deposit") =>
          LET c      == last'.tr.data.client
              tx     == last'.tr.data.tx
              amount == last'.tr.data.amount
              self   == LedgerOf(c)
              after  == clients'[c]
              known  == tx \in DOMAIN self.transactions
          IN  /\ last'.res = <<"Ok">> <=> (~self.locked /\ ~known)
              /\ self.locked => last'.res = <<"ClientLocked", c>>
              /\ (~self.locked /\ known) => last'.res = <<"DuplicateTransactionId", tx>>
              /\ last'.res = <<"Ok">> =>
                    /\ F64Eq(after.available, RealAdd(self.available, amount))
                    /\ tx \in DOMAIN after.transactions
                    /\ after.transactions[tx].kind = "Deposit"
                    /\ after.transactions[tx].data = [client |-> c, tx |-> tx, amount |-> amount]
                    /\ after.held = self.held
                    /\ after.locked = self.locked
                    /\ after.disputed = self.disputed]_vars

\* C22 (dispute): for every Dispute that reaches the repository, with self
\* the client's ledger before it: if tx is not in the history it fails with
\* TransactionDoesNotExist(tx, id); if the history entry is a Withdrawal it
\* fails with WrongReferenceTransactionType; if the entry is a Deposit that
\* is in disputed it fails with TransactionAlreadyDisputed(tx); otherwise it
\* succeeds, available decreases and held increases by the Deposit's amount
\* a, tx is added to disputed, and locked and the history are unchanged.
\* And on every client not seen yet, Deposit(a) then Dispute of it both
\* succeed and leave available = 0 and held = a.
C22_DisputeOutcome ==
    /\ [][(LedgerStep /\ last'.tr.kind = "Dispute") =>
             LET c     == last'.tr.data.client
                 tx    == last'.tr.data.tx
                 self  == LedgerOf(c)
                 after == clients'[c]
             IN  IF tx \notin DOMAIN self.transactions
                 THEN last'.res = <<"TransactionDoesNotExist", tx, c>>
                 ELSE IF self.transactions[tx].kind = "Withdrawal"
                 THEN last'.res = <<"WrongReferenceTransactionType">>
                 ELSE IF tx \in self.disputed
                 THEN last'.res = <<"TransactionAlreadyDisputed", tx>>
                 ELSE LET a == self.transactions[tx].data.amount
                      IN  /\ last'.res = <<"Ok">>
                          /\ F64Eq(after.available, RealSub(self.available, a))
                          /\ F64Eq(after.held, RealAdd(self.held, a))
                          /\ after.disputed = self.disputed \cup {tx}
                          /\ after.locked = self.locked
                          /\ after.transactions = self.transactions]_vars
    /\ [](\A c \in ClientIds \ DOMAIN clients : \A tx \in TxIds : \A a \in Amounts :
             LET dep == ClientRegisterTransaction(ClientNew(c),
                            Transaction("Deposit", TransactionDataAmount(c, tx, a)))
                 dis == ClientRegisterTransaction(dep.client,
                            Transaction("Dispute", TransactionData(c, tx)))
             IN  /\ dep.res = <<"Ok">>
                 /\ dis.res = <<"Ok">>
                 /\ F64Eq(dis.client.available, Zero)
                 /\ F64Eq(dis.client.held, a))

\* C23 (resolve and chargeback outside a dispute): for every Resolve or
\* Chargeback that reaches the repository, with self the client's ledger
\* before it: if tx is in the history but not in disputed (never disputed,
\* disputed and resolved, or a Withdrawal) it fails with
\* TransactionNotDisputed(tx); if tx is not in the history it fails with
\* TransactionDoesNotExist(tx, id); in both cases locked keeps its value.
C23_NotDisputedRejected ==
    [][(LedgerStep /\ last'.tr.kind \in {"Resolve", "Chargeback"}) =>
          LET c     == last'.tr.data.client
              tx    == last'.tr.data.tx
              self  == LedgerOf(c)
              after == clients'[c]
          IN  /\ (tx \in DOMAIN self.transactions /\ tx \notin self.disputed) =>
                    /\ last'.res = <<"TransactionNotDisputed", tx>>
                    /\ after.locked = self.locked
              /\ tx \notin DOMAIN self.transactions =>
                    /\ last'.res = <<"TransactionDoesNotExist", tx, c>>
                    /\ after.locked = self.locked]_vars

\* C23 witness: a Chargeback of a Withdrawal of the history of an unlocked
\* client was rejected as not disputed, and the client is still unlocked.
C23_Witness ==
    /\ last.stage = "ledger"
    /\ last.tr.kind = "Chargeback"
    /\ last.res = <<"TransactionNotDisputed", last.tr.data.tx>>
    /\ last.tr.data.client \in DOMAIN clients
    /\ LET self == clients[last.tr.data.client]
       IN  /\ ~self.locked
           /\ last.tr.data.tx \in DOMAIN self.transactions
           /\ self.transactions[last.tr.data.tx].kind = "Withdrawal"
           /\ self.disputed = {}

\* The tx ids of the histories of the clients other than c.
OtherHistories(c) ==
    UNION {DOMAIN clients[d].transactions : d \in DOMAIN clients \ {c}}

\* C24 as stated: for every row that reaches the repository, with self the
\* ledger of its client before it: DuplicateTransactionId is returned only
\* when tx is in self's own history; a Deposit or Withdrawal whose tx is in
\* another client's history and not in self's is accepted; a Dispute,
\* Resolve or Chargeback whose tx is only in other clients' histories fails
\* with TransactionDoesNotExist(tx, id) and leaves every other client's
\* ledger as it was.  Violated: such a Withdrawal is rejected with
\* InsufficientFunds when it asks for more than its own client has, and
\* such a row is rejected with ClientLocked on a locked client.
C24_ForeignTxIdAccepted ==
    [][LedgerStep =>
          LET c      == last'.tr.data.client
              tx     == last'.tr.data.tx
              self   == LedgerOf(c)
              foreign == tx \in OtherHistories(c) /\ tx \notin DOMAIN self.transactions
          IN  /\ last'.res = <<"DuplicateTransactionId", tx>> => tx \in DOMAIN self.transactions
              /\ (foreign /\ last'.tr.kind \in Monetary) => last'.res = <<"Ok">>
              /\ (foreign /\ last'.tr.kind \in Referential) =>
                    /\ last'.res = <<"TransactionDoesNotExist", tx, c>>
                    /\ \A d \in DOMAIN clients \ {c} : clients'[d] = clients[d]]_vars

\* C24, amended (tx ids are scoped per client): for every row that reaches the
\* repository, with self the ledger of its client before it:
\* DuplicateTransactionId is returned only when tx is in self's own history;
\* a Deposit or Withdrawal whose tx is in another client's history and not
\* in self's is never a duplicate and is accepted exactly when the lock and
\* the funds check allow it (self is unlocked and, for a Withdrawal,
\* available is not less than the amount), as if no other client had the
\* id; a Dispute, Resolve
\* or Chargeback whose tx is only in other clients' histories fails with
\* TransactionDoesNotExist(tx, id), and every other client's ledger is left
\* as it was.
C24_TxIdsScopedPerClient ==
    [][LedgerStep =>
          LET c      == last'.tr.data.client
              tx     == last'.tr.data.tx
              self   == LedgerOf(c)
              foreign == tx \in OtherHistories(c) /\ tx \notin DOMAIN self.transactions
          IN  /\ last'.res = <<"DuplicateTransactionId", tx>> => tx \in DOMAIN self.transactions
              /\ (foreign /\ last'.tr.kind \in Monetary) =>
                    /\ last'.res # <<"DuplicateTransactionId", tx>>
                    /\ last'.res = <<"Ok">> <=>
                          /\ ~self.locked
                          /\ last'.tr.kind = "Withdrawal"
                                 => ~F64Lt(self.available, last'.tr.data.amount)
                    /\ last'.res = <<"Ok">> => tx \in DOMAIN clients'[c].transactions
              /\ (foreign /\ last'.tr.kind \in Referential) =>
                    /\ last'.res = <<"TransactionDoesNotExist", tx, c>>
                    /\ \A d \in DOMAIN clients \ {c} : clients'[d] = clients[d]]_vars

\* C24 witness: client B's Dispute of a tx id that only another client A has
\* was rejected with TransactionDoesNotExist, while B's own history holds an
\* accepted transaction under an id that A's history holds too.
C24_Witness ==
    /\ last.stage = "ledger"
    /\ last.tr.kind = "Dispute"
    /\ last.res = <<"TransactionDoesNotExist", last.tr.data.tx, last.tr.data.client>>
    /\ last.tr.data.client \in DOMAIN clients
    /\ LET b == last.tr.data.client
       IN  /\ last.tr.data.tx \in OtherHistories(b)
           /\ last.tr.data.tx \notin DOMAIN clients[b].transactions
           /\ \E t \in DOMAIN clients[b].transactions : t \in OtherHistories(b)
           /\ \A a \in DOMAIN clients \ {b} :
                 /\ clients[a].held = Zero
                 /\ clients[a].disputed = {}

====
